---- MODULE Spec2Model ----
(***************************************************************************)
(* Model of convert_words_pdfs/converter.py: the interactive Word <-> PDF  *)
(* converter.  One behaviour is one run of main(): the two prompts, the    *)
(* selected conversion function, its per-file jobs and the process exit.   *)
(* The external engines (soffice, Word automation, docx2pdf, pdf2docx) are *)
(* the environment: every call to one of them is a nondeterministic choice *)
(* over the outcomes the call can have.                                    *)
(*                                                                         *)
(* A file name is a sequence of one-character strings, a path is a         *)
(* sequence of names relative to the root directory <<>>, and the file     *)
(* system is a set of entries [path, kind].                                *)
(***************************************************************************)
EXTENDS Integers, Sequences, FiniteSets, TLC

\* Largest number of entries the file system holds when main() starts.
MaxEntries == 3

----------------------------------------------------------------------------
(* Strings and paths (pathlib, str)                                        *)

\* str.lower() on one character (the letters the names below use).
LowerChar(c) ==
  CASE c = "D" -> "d"
    [] c = "O" -> "o"
    [] c = "C" -> "c"
    [] c = "X" -> "x"
    [] c = "P" -> "p"
    [] c = "F" -> "f"
    [] OTHER -> c

\* str.lower()
Lower(s) == [i \in DOMAIN s |-> LowerChar(s[i])]

\* str.rfind("."), 1-based; 0 when there is no dot.
RFindDot(name) ==
  LET dots == {i \in DOMAIN name : name[i] = "."}
  IN  IF dots = {} THEN 0 ELSE CHOOSE i \in dots : \A j \in dots : j <= i

\* PurePath.suffix: the text from the last dot, unless that dot is the first
\* or the last character of the name.
Suffix(name) ==
  LET j == RFindDot(name)
  IN  IF j > 1 /\ j < Len(name) THEN SubSeq(name, j, Len(name)) ELSE <<>>

\* PurePath.stem
Stem(name) ==
  LET j == RFindDot(name)
  IN  IF j > 1 /\ j < Len(name) THEN SubSeq(name, 1, j - 1) ELSE name

\* PurePath.name and PurePath.parent
Name(p) == p[Len(p)]
Parent(p) == SubSeq(p, 1, Len(p) - 1)

DOCX == <<".", "d", "o", "c", "x">>
DOC == <<".", "d", "o", "c">>
PDF == <<".", "p", "d", "f">>
CONVERT_PDFS == <<"convert_pdfs">>
CONVERT_WORDS == <<"convert_words">>

\* Path.exists(), Path.is_dir(), Path.is_file() on file system f.
Exists(f, p) == p = <<>> \/ \E e \in f : e.path = p
IsDir(f, p) == p = <<>> \/ \E e \in f : e.path = p /\ e.kind = "dir"
IsFile(f, p) == \E e \in f : e.path = p /\ e.kind = "file"

\* A backend wrote file p.
WriteFile(f, p) == {e \in f : e.path # p} \cup {[path |-> p, kind |-> "file"]}

\* mkdir without exist_ok: it raises whenever the path exists.
MkdirRaisesIfExists(f, p) == Exists(f, p)

\* ensure_dir: mkdir(parents=True, exist_ok=True) raises FileExistsError when
\* the path exists and is not a directory, and is a no-op when it is one.
EnsureDirRaises(f, p) == Exists(f, p) /\ ~IsDir(f, p)
EnsureDir(f, p) == IF IsDir(f, p) THEN f ELSE f \cup {[path |-> p, kind |-> "dir"]}

\* Directory.iterdir(): the direct children of dir.
IterDir(f, dir) == {e.path : e \in {x \in f : Len(x.path) = Len(dir) + 1 /\ Parent(x.path) = dir}}

\* The test with the item's suffix compared as spelled (no .lower() on it).
SuffixAcceptedAsSpelled(f, item, suffixes) ==
  LET lowered == {Lower(s) : s \in suffixes}
  IN  IsFile(f, item) /\ Suffix(Name(item)) \in lowered

\* The test of iter_files_with_suffix on one item.
SuffixAccepted(f, item, suffixes) ==
  LET lowered == {Lower(s) : s \in suffixes}
  IN  IsFile(f, item) /\ Lower(Suffix(Name(item))) \in lowered

\* iter_files_with_suffix over the children in iteration order `order`.
IterFilesWithSuffix(f, order, suffixes) ==
  SelectSeq(order, LAMBDA item : SuffixAccepted(f, item, suffixes))

\* The orders in which iterdir() may yield the set S.
Orders(S) == {o \in [1..Cardinality(S) -> S] : \A i, j \in DOMAIN o : i # j => o[i] # o[j]}

----------------------------------------------------------------------------
(* State                                                                   *)

VARIABLES
  docx_to_pdf_convert, \* TRUE iff docx2pdf was imported (not None)
  PdfToDocxConverter,  \* TRUE iff pdf2docx was imported (not None)
  win32com,            \* TRUE iff win32com.client was imported (not None)
  soffice,             \* TRUE iff shutil.which("soffice") finds the binary
  fs,                  \* the file system
  fs0,                 \* the file system when main() started
  pc,                  \* where the run is
  rawChoice,           \* what the operator typed at the menu
  rawPath,             \* the path the operator gave
  choice,              \* main: choice
  directory,           \* main: directory
  file_path,           \* main: file_path
  output_dir,          \* output_dir of the running conversion function
  files,               \* files of the running batch
  idx,                 \* position of the batch loop in files (1-based)
  converted,           \* converted of the running batch
  outcomes,            \* the per-file lines printed so far: <<file, "converted"|"failed">>
  info,                \* TRUE iff the "No ... files found" line was printed
  report,              \* <<converted, total>> of the "Finalizado" line, or <<>>
  job,                 \* the job being run, or the last one run
  com,                 \* the Word automation session of convert_doc_to_docx
  handles,             \* the pdf2docx converters that are open
  error,               \* which except clause of main ran: "none", "input", "convert"
  exitCode             \* the exit status of the process

vars == <<docx_to_pdf_convert, PdfToDocxConverter, win32com, soffice, fs, fs0, pc,
          rawChoice, rawPath, choice, directory, file_path, output_dir, files, idx,
          converted, outcomes, info, report, job, com, handles, error, exitCode>>

envVars == <<docx_to_pdf_convert, PdfToDocxConverter, win32com, soffice, fs0>>
inputVars == <<rawChoice, rawPath, choice, directory, file_path>>
batchVars == <<files, idx, converted, info, report>>

File(p) == [path |-> p, kind |-> "file"]
Dir(p) == [path |-> p, kind |-> "dir"]

\* The entries a starting file system is drawn from.
Universe ==
  { File(<< <<"a", ".", "d", "o", "c", "x">> >>),
    File(<< <<"a", ".", "d", "o", "c">> >>),
    File(<< <<"b", ".", "D", "O", "C">> >>),
    File(<< <<"r", ".", "p", "d", "f">> >>),
    File(<< <<"s", ".", "P", "D", "F">> >>),
    File(<< <<"n", ".", "t", "x", "t">> >>),
    File(<< <<".", "p", "d", "f">> >>),
    Dir(<< <<"d", ".", "d", "o", "c", "x">> >>),
    File(<< <<"d", ".", "d", "o", "c", "x">>, <<"c", ".", "d", "o", "c", "x">> >>),
    Dir(<< CONVERT_PDFS >>),
    File(<< CONVERT_PDFS >>),
    File(<< CONVERT_PDFS, <<"a", ".", "p", "d", "f">> >>) }

\* A file system: every entry lies in a directory, and no path is two things.
WellFormed(f) ==
  /\ \A e \in f : Len(e.path) > 1 => Dir(Parent(e.path)) \in f
  /\ \A e1, e2 \in f : e1.path = e2.path => e1 = e2

NoJob ==
  [file |-> <<>>, target |-> <<>>, source_path |-> <<>>, norm |-> "na",
   norm_soffice |-> "none", a |-> "none", b |-> "none", stale |-> FALSE, produced |-> FALSE,
   last_exc |-> "none", outcome |-> "none"]

NoCom == [word |-> FALSE, failed |-> "none", quits |-> 0, teardown |-> "none"]

Init ==
  /\ docx_to_pdf_convert \in BOOLEAN
  /\ PdfToDocxConverter \in BOOLEAN
  /\ win32com \in BOOLEAN
  /\ soffice \in BOOLEAN
  /\ fs \in {f \in SUBSET Universe : Cardinality(f) <= MaxEntries /\ WellFormed(f)}
  /\ fs0 = fs
  /\ pc = "prompt_choice"
  /\ rawChoice = <<>>
  /\ rawPath = <<>>
  /\ choice = 0
  /\ directory = <<>>
  /\ file_path = <<>>
  /\ output_dir = <<>>
  /\ files = <<>>
  /\ idx = 0
  /\ converted = 0
  /\ outcomes = <<>>
  /\ info = FALSE
  /\ report = <<>>
  /\ job = NoJob
  /\ com = NoCom
  /\ handles = {}
  /\ error = "none"
  /\ exitCode = 0

----------------------------------------------------------------------------
(* main: the prompts                                                       *)

\* str.strip() of the menu answer.
RECURSIVE LStrip(_)
LStrip(s) == IF s # <<>> /\ Head(s) = " " THEN LStrip(Tail(s)) ELSE s
RECURSIVE RStrip(_)
RStrip(s) == IF s # <<>> /\ s[Len(s)] = " " THEN RStrip(SubSeq(s, 1, Len(s) - 1)) ELSE s
Strip(s) == RStrip(LStrip(s))

\* prompt_choice: the answers it accepts, and int(choice).
ChoiceAccepted(raw) == Strip(raw) \in {<<"1">>, <<"2">>, <<"3">>, <<"4">>}
IntOf(s) ==
  CASE s = <<"1">> -> 1
    [] s = <<"2">> -> 2
    [] s = <<"3">> -> 3
    [] OTHER -> 4

\* What the operator may type at the menu.
ChoiceInputs ==
  { <<"1">>, <<"2">>, <<"3">>, <<"4">>, <<" ", "1", " ">>, <<"5">>, <<"0">>, <<>>,
    <<"1", "2">>, <<"x">> }

\* The paths the operator may give: the root, any entry, or a path that is not there.
PathInputs ==
  {<<>>} \cup {e.path : e \in fs}
    \cup { << <<"m", ".", "d", "o", "c", "x">> >>, << <<"m", ".", "p", "d", "f">> >> }

\* The first except clause without its exit status: the error is printed and the
\* process ends with status 0.
PrintInputErrorOnly ==
  /\ error' = "input"
  /\ exitCode' = 0
  /\ pc' = "exited"

\* main's first except clause: print the error and sys.exit(1).
ExitOnInputError ==
  /\ error' = "input"
  /\ exitCode' = 1
  /\ pc' = "exited"

\* main's second except clause: print the error and sys.exit(1).
ExitOnConvertError ==
  /\ error' = "convert"
  /\ exitCode' = 1
  /\ pc' = "exited"

\* Falling off the end of main.
ReturnFromMain ==
  /\ pc' = "exited"
  /\ UNCHANGED <<error, exitCode>>

PromptChoice ==
  /\ pc = "prompt_choice"
  /\ \E raw \in ChoiceInputs :
       /\ rawChoice' = raw
       /\ IF ChoiceAccepted(raw)
            THEN /\ choice' = IntOf(Strip(raw))
                 /\ pc' = "prompt_path"
                 /\ UNCHANGED <<error, exitCode>>
            ELSE /\ ExitOnInputError
                 /\ UNCHANGED choice
  /\ UNCHANGED <<envVars, fs, rawPath, directory, file_path, output_dir, batchVars,
                 outcomes, job, com, handles>>

\* prompt_directory's test.
DirectoryAccepted(f, p) == Exists(f, p) /\ IsDir(f, p)

PromptDirectory ==
  /\ pc = "prompt_path"
  /\ choice \in {1, 2}
  /\ \E p \in PathInputs :
       /\ rawPath' = p
       /\ IF DirectoryAccepted(fs, p)
            THEN /\ directory' = p
                 /\ pc' = "convert"
                 /\ UNCHANGED <<error, exitCode>>
            ELSE /\ ExitOnInputError
                 /\ UNCHANGED directory
  /\ UNCHANGED <<envVars, fs, rawChoice, choice, file_path, output_dir, batchVars,
                 outcomes, job, com, handles>>

\* prompt_file's test; valid is the set of suffixes it was called with.
FileAccepted(f, p, valid) ==
  /\ Exists(f, p)
  /\ IsFile(f, p)
  /\ Lower(Suffix(Name(p))) \in valid

\* main: prompt_file(".docx", ".doc") for choice 3, prompt_file(".pdf") otherwise.
ExpectedSuffixes(c) == IF c = 3 THEN {DOCX, DOC} ELSE {PDF}

PromptFile ==
  /\ pc = "prompt_path"
  /\ choice \notin {1, 2}
  /\ \E p \in PathInputs :
       /\ rawPath' = p
       /\ IF FileAccepted(fs, p, ExpectedSuffixes(choice))
            THEN /\ file_path' = p
                 /\ pc' = "convert"
                 /\ UNCHANGED <<error, exitCode>>
            ELSE /\ ExitOnInputError
                 /\ UNCHANGED file_path
  /\ UNCHANGED <<envVars, fs, rawChoice, choice, directory, output_dir, batchVars,
                 outcomes, job, com, handles>>

----------------------------------------------------------------------------
(* External engines                                                        *)

\* subprocess.check_call([soffice, "--headless", "--convert-to", ...]): it raises
\* (non-zero exit status), or returns having written the output, or returns
\* having written nothing.
SofficeOutcomes == {"raise", "wrote", "nowrite"}

\* docx_to_pdf_convert(source, target): writes the target, or raises.
Docx2PdfOutcomes == {"raise", "wrote"}

\* A call of the Word automation interface, or of pdf2docx: done, or raises.
CallOutcomes == {"ok", "raise"}

\* The file system after an engine call with outcome out and output file dest.
AfterCall(f, out, dest) == IF out = "wrote" THEN WriteFile(f, dest) ELSE f

----------------------------------------------------------------------------
(* convert_doc_to_docx                                                     *)

\* dest = dest_dir / f"{src.stem}.docx"
DocxDest(src, dest_dir) == Append(dest_dir, Stem(Name(src)) \o DOCX)

\* return dest: back in the caller, source_path = dest and the PDF backends follow.
NormReturn(j, dest) ==
  /\ job' = [j EXCEPT !.source_path = dest, !.norm = "ok"]
  /\ pc' = "backendA"

\* Lines 54-77: the soffice attempt.  It returns dest when the call returned and
\* dest exists; otherwise last_exc is set and the Word fallback follows.
DocToDocxSoffice ==
  /\ pc = "norm_soffice"
  /\ LET dest == DocxDest(job.file, output_dir)
     IN  IF ~Exists(fs, job.file)
           THEN /\ job' = [job EXCEPT !.norm = "failed", !.last_exc = "FileNotFoundError"]
                /\ pc' = "except"
                /\ UNCHANGED fs
           ELSE IF soffice
             THEN \E out \in SofficeOutcomes :
                    /\ fs' = AfterCall(fs, out, dest)
                    /\ IF out # "raise" /\ Exists(fs', dest)
                         THEN NormReturn([job EXCEPT !.norm_soffice = out], dest)
                         ELSE /\ job' = [job EXCEPT !.norm_soffice = out, !.last_exc =
                                           IF out = "raise" THEN "soffice" ELSE "no_output"]
                              /\ pc' = "norm_com"
             ELSE /\ pc' = "norm_com"
                  /\ UNCHANGED <<fs, job>>
  /\ UNCHANGED <<envVars, inputVars, output_dir, batchVars, outcomes, com, handles,
                 error, exitCode>>

\* Lines 80-86: win32com is None skips the Word attempt; otherwise Dispatch
\* obtains the session or raises.  A failure to set Visible is swallowed.
ComDispatch ==
  /\ pc = "norm_com"
  /\ IF win32com
       THEN \E out \in CallOutcomes :
              IF out = "ok"
                THEN /\ com' = [NoCom EXCEPT !.word = TRUE]
                     /\ pc' = "com_open"
                ELSE /\ com' = [NoCom EXCEPT !.failed = "Dispatch"]
                     /\ pc' = "com_teardown"
       ELSE /\ com' = NoCom
            /\ pc' = "norm_raise"
  /\ UNCHANGED <<envVars, fs, inputVars, output_dir, batchVars, outcomes, job, handles,
                 error, exitCode>>

\* A step of the try block that raised: control goes to its except clause.
ComRaise(step) ==
  /\ com' = [com EXCEPT !.failed = step]
  /\ pc' = "com_teardown"

\* Line 87: doc = word.Documents.Open(str(src))
ComOpen ==
  /\ pc = "com_open"
  /\ \E out \in CallOutcomes :
       IF out = "ok" THEN pc' = "com_saveas" /\ UNCHANGED com ELSE ComRaise("Open")
  /\ UNCHANGED <<envVars, fs, inputVars, output_dir, batchVars, outcomes, job, handles,
                 error, exitCode>>

\* Line 88: doc.SaveAs(str(dest), FileFormat=16)
ComSaveAs ==
  /\ pc = "com_saveas"
  /\ \E out \in CallOutcomes :
       IF out = "ok"
         THEN /\ fs' = WriteFile(fs, DocxDest(job.file, output_dir))
              /\ pc' = "com_close"
              /\ UNCHANGED com
         ELSE ComRaise("SaveAs") /\ UNCHANGED fs
  /\ UNCHANGED <<envVars, inputVars, output_dir, batchVars, outcomes, job, handles,
                 error, exitCode>>

\* Line 89: doc.Close(False)
ComClose ==
  /\ pc = "com_close"
  /\ \E out \in CallOutcomes :
       IF out = "ok" THEN pc' = "com_quit" /\ UNCHANGED com ELSE ComRaise("Close")
  /\ UNCHANGED <<envVars, fs, inputVars, output_dir, batchVars, outcomes, job, handles,
                 error, exitCode>>

\* Lines 90-91: word.Quit(); return dest
ComQuit ==
  /\ pc = "com_quit"
  /\ \E out \in CallOutcomes :
       IF out = "ok"
         THEN /\ com' = [com EXCEPT !.quits = @ + 1, !.word = FALSE]
              /\ NormReturn(job, DocxDest(job.file, output_dir))
         ELSE /\ com' = [com EXCEPT !.quits = @ + 1, !.failed = "Quit"]
              /\ pc' = "com_teardown"
              /\ UNCHANGED job
  /\ UNCHANGED <<envVars, fs, inputVars, output_dir, batchVars, outcomes, handles,
                 error, exitCode>>

\* The cause the except clause records: last_exc = exc, whatever word.Quit() did.
CauseAfterTeardown(failed, teardown) == failed

\* Lines 92-97: the except clause.  word.Quit() is attempted; when Dispatch
\* itself raised, word is unbound and the attempt raises NameError.  Either
\* error is swallowed, and last_exc becomes the exception that was caught.
ComTeardown ==
  /\ pc = "com_teardown"
  /\ \E out \in IF com.word THEN CallOutcomes ELSE {"unbound"} :
       /\ com' = [com EXCEPT !.quits = IF com.word THEN @ + 1 ELSE @,
                             !.word = IF out = "ok" THEN FALSE ELSE @,
                             !.teardown = out]
       /\ job' = [job EXCEPT !.last_exc = CauseAfterTeardown(com.failed, out)]
  /\ pc' = "norm_raise"
  /\ UNCHANGED <<envVars, fs, inputVars, output_dir, batchVars, outcomes, handles,
                 error, exitCode>>

\* The normalization error swallowed: the PDF backends run on the .doc file.
NormalizationErrorIgnored == "backendA"

\* Where the RuntimeError of lines 99-101 takes the caller: out of its try
\* block, past both PDF backends, to the except clause of the job.
AfterNormalizationError == "except"

\* Lines 99-101: raise RuntimeError(...) from last_exc.
DocToDocxRaise ==
  /\ pc = "norm_raise"
  /\ job' = [job EXCEPT !.norm = "failed"]
  /\ pc' = AfterNormalizationError
  /\ UNCHANGED <<envVars, fs, inputVars, output_dir, batchVars, outcomes, com, handles,
                 error, exitCode>>

----------------------------------------------------------------------------
(* Word -> PDF                                                             *)

\* `docx_to_pdf_convert is None`, the first test of both Word -> PDF functions.
Docx2PdfMissing == ~docx_to_pdf_convert

\* target = output_dir / f"{file.stem}.pdf"
PdfTarget(file, out_dir) == Append(out_dir, Stem(Name(file)) \o PDF)

\* file.suffix.lower() == ".doc"
IsLegacy(file) == Lower(Suffix(Name(file))) = DOC

\* A job as it starts: source_path = file, and nothing attempted yet.
NewJob(file, target, f) ==
  [NoJob EXCEPT !.file = file, !.target = target, !.source_path = file,
                !.stale = Exists(f, target), !.outcome = "pending"]

\* The for statement: the next file, or the line after the loop.
LoopNext(body) ==
  IF idx < Len(files)
    THEN idx' = idx + 1 /\ pc' = body
    ELSE pc' = "summary" /\ UNCHANGED idx

\* The job printed its "Converted" or "Failed to convert" line.
Printed(result) ==
  /\ outcomes' = Append(outcomes, <<job.file, result>>)

\* Lines 105-117: the library test, ensure_dir, the listing, the empty case.
ConvertDocxToPdfStart ==
  /\ pc = "convert"
  /\ choice = 1
  /\ IF Docx2PdfMissing \/ EnsureDirRaises(fs, Append(directory, CONVERT_PDFS))
       THEN /\ ExitOnConvertError
            /\ UNCHANGED <<fs, output_dir, batchVars>>
       ELSE /\ output_dir' = Append(directory, CONVERT_PDFS)
            /\ fs' = EnsureDir(fs, output_dir')
            /\ \E order \in Orders(IterDir(fs', directory)) :
                 files' = IterFilesWithSuffix(fs', order, {DOCX, DOC})
            /\ IF files' = <<>>
                 THEN /\ info' = TRUE
                      /\ ReturnFromMain
                      /\ UNCHANGED <<idx, converted, report>>
                 ELSE /\ converted' = 0
                      /\ idx' = 1
                      /\ pc' = "job"
                      /\ UNCHANGED <<info, report, error, exitCode>>
  /\ UNCHANGED <<envVars, inputVars, outcomes, job, com, handles>>

\* Lines 119-124: the head of one iteration, up to the call of convert_doc_to_docx.
JobStart ==
  /\ pc = "job"
  /\ choice = 1
  /\ job' = NewJob(files[idx], PdfTarget(files[idx], output_dir), fs)
  /\ pc' = IF IsLegacy(files[idx]) THEN "norm_soffice" ELSE "backendA"
  /\ UNCHANGED <<envVars, fs, inputVars, output_dir, batchVars, outcomes, com, handles,
                 error, exitCode>>

\* Line 138 (and 209): reached when check_call returned; the job succeeded iff
\* target.exists().
SofficeSucceeded(out, f, target) == out # "raise" /\ Exists(f, target)

\* A soffice failure treated as the job's failure: no docx2pdf attempt.
SofficeFailureFailsJob == "except"

\* Where control goes when soffice raised or left no target: past the except
\* clause of line 142 to the docx2pdf call.
AfterSofficeFailure == "backendB"

\* Lines 127-143: backend A.
BatchBackendA ==
  /\ pc = "backendA"
  /\ choice = 1
  /\ IF soffice
       THEN \E out \in SofficeOutcomes :
              /\ fs' = AfterCall(fs, out, job.target)
              /\ IF SofficeSucceeded(out, fs', job.target)
                   THEN /\ job' = [job EXCEPT !.a = out, !.produced = (out = "wrote"),
                                              !.outcome = "converted"]
                        /\ converted' = converted + 1
                        /\ Printed("converted")
                        /\ LoopNext("job")
                   ELSE /\ job' = [job EXCEPT !.a = out]
                        /\ pc' = AfterSofficeFailure
                        /\ UNCHANGED <<idx, converted, outcomes>>
       ELSE /\ pc' = "backendB"
            /\ UNCHANGED <<fs, job, idx, converted, outcomes>>
  /\ UNCHANGED <<envVars, inputVars, output_dir, files, info, report, com, handles,
                 error, exitCode>>

\* Lines 146-148: backend B.  An exception leaves for the except clause.
BatchBackendB ==
  /\ pc = "backendB"
  /\ choice = 1
  /\ \E out \in Docx2PdfOutcomes :
       /\ fs' = AfterCall(fs, out, job.target)
       /\ IF out = "wrote"
            THEN /\ job' = [job EXCEPT !.b = out, !.produced = TRUE, !.outcome = "converted"]
                 /\ converted' = converted + 1
                 /\ Printed("converted")
                 /\ LoopNext("job")
            ELSE /\ job' = [job EXCEPT !.b = out, !.last_exc = "docx2pdf"]
                 /\ pc' = "except"
                 /\ UNCHANGED <<idx, converted, outcomes>>
  /\ UNCHANGED <<envVars, inputVars, output_dir, files, info, report, com, handles,
                 error, exitCode>>

\* The job's except clause re-raising: the failure leaves the loop and reaches main.
BatchExceptReraises ==
  /\ pc = "except"
  /\ choice = 1
  /\ job' = [job EXCEPT !.outcome = "failed"]
  /\ Printed("failed")
  /\ ExitOnConvertError
  /\ UNCHANGED <<envVars, fs, inputVars, output_dir, batchVars, com, handles>>

\* Lines 149-150: the job's except clause prints the failure; the loop goes on.
BatchExcept ==
  /\ pc = "except"
  /\ choice = 1
  /\ job' = [job EXCEPT !.outcome = "failed"]
  /\ Printed("failed")
  /\ LoopNext("job")
  /\ UNCHANGED <<envVars, fs, inputVars, output_dir, files, converted, info, report, com,
                 handles, error, exitCode>>

\* Line 152: the summary line, and the return to main.
SummaryPdfs ==
  /\ pc = "summary"
  /\ choice = 1
  /\ report' = <<converted, Len(files)>>
  /\ ReturnFromMain
  /\ UNCHANGED <<envVars, fs, inputVars, output_dir, files, idx, converted, outcomes, info,
                 job, com, handles>>

\* Line 187: the single-file function's own test of its argument.
SingleDocxInvalid(f, p) == ~Exists(f, p) \/ Lower(Suffix(Name(p))) \notin {DOCX, DOC}

\* Lines 182-195: the library test, the argument test, ensure_dir, the target,
\* up to the call of convert_doc_to_docx.
ConvertSingleDocxToPdfStart ==
  /\ pc = "convert"
  /\ choice = 3
  /\ IF \/ Docx2PdfMissing
        \/ SingleDocxInvalid(fs, file_path)
        \/ EnsureDirRaises(fs, Append(Parent(file_path), CONVERT_PDFS))
       THEN /\ ExitOnConvertError
            /\ UNCHANGED <<fs, output_dir, job>>
       ELSE /\ output_dir' = Append(Parent(file_path), CONVERT_PDFS)
            /\ fs' = EnsureDir(fs, output_dir')
            /\ job' = NewJob(file_path, PdfTarget(file_path, output_dir'), fs')
            /\ pc' = IF IsLegacy(file_path) THEN "norm_soffice" ELSE "backendA"
            /\ UNCHANGED <<error, exitCode>>
  /\ UNCHANGED <<envVars, inputVars, batchVars, outcomes, com, handles>>

\* Lines 197-213: backend A of the single-file function.
SingleBackendA ==
  /\ pc = "backendA"
  /\ choice = 3
  /\ IF soffice
       THEN \E out \in SofficeOutcomes :
              /\ fs' = AfterCall(fs, out, job.target)
              /\ IF SofficeSucceeded(out, fs', job.target)
                   THEN /\ job' = [job EXCEPT !.a = out, !.produced = (out = "wrote"),
                                              !.outcome = "converted"]
                        /\ Printed("converted")
                        /\ ReturnFromMain
                   ELSE /\ job' = [job EXCEPT !.a = out]
                        /\ pc' = AfterSofficeFailure
                        /\ UNCHANGED <<outcomes, error, exitCode>>
       ELSE /\ pc' = "backendB"
            /\ UNCHANGED <<fs, job, outcomes, error, exitCode>>
  /\ UNCHANGED <<envVars, inputVars, output_dir, batchVars, com, handles>>

\* Lines 215-216: backend B of the single-file function.
SingleBackendB ==
  /\ pc = "backendB"
  /\ choice = 3
  /\ \E out \in Docx2PdfOutcomes :
       /\ fs' = AfterCall(fs, out, job.target)
       /\ IF out = "wrote"
            THEN /\ job' = [job EXCEPT !.b = out, !.produced = TRUE, !.outcome = "converted"]
                 /\ Printed("converted")
                 /\ ReturnFromMain
            ELSE /\ job' = [job EXCEPT !.b = out, !.last_exc = "docx2pdf"]
                 /\ pc' = "except"
                 /\ UNCHANGED <<outcomes, error, exitCode>>
  /\ UNCHANGED <<envVars, inputVars, output_dir, batchVars, com, handles>>

\* Lines 217-218: the except clause prints the failure and the function returns.
SingleExcept ==
  /\ pc = "except"
  /\ choice = 3
  /\ job' = [job EXCEPT !.outcome = "failed"]
  /\ Printed("failed")
  /\ ReturnFromMain
  /\ UNCHANGED <<envVars, fs, inputVars, output_dir, batchVars, com, handles>>

----------------------------------------------------------------------------
(* PDF -> Word                                                             *)

\* The PDF -> Word functions without their library test.
Pdf2DocxNeverTested == FALSE

\* `PdfToDocxConverter is None`, the first test of both PDF -> Word functions.
Pdf2DocxMissing == ~PdfToDocxConverter

\* target = output_dir / f"{file.stem}.docx"
DocxTarget(file, out_dir) == Append(out_dir, Stem(Name(file)) \o DOCX)

\* The converter closed only after convert() returned (no with, no finally).
CloseOnSuccessOnly(h, file, out) == IF out = "raise" THEN h ELSE h \ {file}

\* Leaving the with block closes the converter, whether convert() returned or raised.
WithExit(h, file, out) == h \ {file}

\* Lines 156-167: the library test, ensure_dir, the listing, the empty case.
ConvertPdfToDocxStart ==
  /\ pc = "convert"
  /\ choice = 2
  /\ IF Pdf2DocxMissing \/ EnsureDirRaises(fs, Append(directory, CONVERT_WORDS))
       THEN /\ ExitOnConvertError
            /\ UNCHANGED <<fs, output_dir, batchVars>>
       ELSE /\ output_dir' = Append(directory, CONVERT_WORDS)
            /\ fs' = EnsureDir(fs, output_dir')
            /\ \E order \in Orders(IterDir(fs', directory)) :
                 files' = IterFilesWithSuffix(fs', order, {PDF})
            /\ IF files' = <<>>
                 THEN /\ info' = TRUE
                      /\ ReturnFromMain
                      /\ UNCHANGED <<idx, converted, report>>
                 ELSE /\ converted' = 0
                      /\ idx' = 1
                      /\ pc' = "pdf_open"
                      /\ UNCHANGED <<info, report, error, exitCode>>
  /\ UNCHANGED <<envVars, inputVars, outcomes, job, com, handles>>

\* Lines 168-171 (and 175-176): the target, and PdfToDocxConverter(...) entering
\* the with block; when the constructor raises the file is reported failed.
PdfOpen ==
  /\ pc = "pdf_open"
  /\ choice = 2
  /\ \E out \in CallOutcomes :
       IF out = "ok"
         THEN /\ job' = NewJob(files[idx], DocxTarget(files[idx], output_dir), fs)
              /\ handles' = handles \cup {files[idx]}
              /\ pc' = "pdf_convert"
              /\ UNCHANGED <<idx, outcomes>>
         ELSE /\ job' = [NewJob(files[idx], DocxTarget(files[idx], output_dir), fs)
                           EXCEPT !.outcome = "failed", !.last_exc = "pdf2docx"]
              /\ outcomes' = Append(outcomes, <<files[idx], "failed">>)
              /\ LoopNext("pdf_open")
              /\ UNCHANGED handles
  /\ UNCHANGED <<envVars, fs, inputVars, output_dir, files, converted, info, report, com,
                 error, exitCode>>

\* Lines 172-176: converter.convert(...), the end of the with block, and the
\* "Converted" or "Failed to convert" line.
PdfConvert ==
  /\ pc = "pdf_convert"
  /\ choice = 2
  /\ \E out \in Docx2PdfOutcomes :
       /\ fs' = AfterCall(fs, out, job.target)
       /\ handles' = WithExit(handles, job.file, out)
       /\ IF out = "wrote"
            THEN /\ job' = [job EXCEPT !.b = out, !.produced = TRUE, !.outcome = "converted"]
                 /\ converted' = converted + 1
                 /\ Printed("converted")
            ELSE /\ job' = [job EXCEPT !.b = out, !.last_exc = "pdf2docx",
                                       !.outcome = "failed"]
                 /\ Printed("failed")
                 /\ UNCHANGED converted
       /\ LoopNext("pdf_open")
  /\ UNCHANGED <<envVars, inputVars, output_dir, files, info, report, com, error, exitCode>>

\* Line 178: the summary line, and the return to main.
SummaryWords ==
  /\ pc = "summary"
  /\ choice = 2
  /\ report' = <<converted, Len(files)>>
  /\ ReturnFromMain
  /\ UNCHANGED <<envVars, fs, inputVars, output_dir, files, idx, converted, outcomes, info,
                 job, com, handles>>

\* Line 227: the single-file function's own test of its argument.
SinglePdfInvalid(f, p) == ~Exists(f, p) \/ Lower(Suffix(Name(p))) # PDF

\* Lines 222-231: the library test, the argument test, ensure_dir, the target.
ConvertSinglePdfToDocxStart ==
  /\ pc = "convert"
  /\ choice = 4
  /\ IF \/ Pdf2DocxMissing
        \/ SinglePdfInvalid(fs, file_path)
        \/ EnsureDirRaises(fs, Append(Parent(file_path), CONVERT_WORDS))
       THEN /\ ExitOnConvertError
            /\ UNCHANGED <<fs, output_dir, job>>
       ELSE /\ output_dir' = Append(Parent(file_path), CONVERT_WORDS)
            /\ fs' = EnsureDir(fs, output_dir')
            /\ job' = NewJob(file_path, DocxTarget(file_path, output_dir'), fs')
            /\ pc' = "pdf_open"
            /\ UNCHANGED <<error, exitCode>>
  /\ UNCHANGED <<envVars, inputVars, batchVars, outcomes, com, handles>>

\* Lines 232-233 (and 236-237): PdfToDocxConverter(...) entering the with block.
SinglePdfOpen ==
  /\ pc = "pdf_open"
  /\ choice = 4
  /\ \E out \in CallOutcomes :
       IF out = "ok"
         THEN /\ handles' = handles \cup {job.file}
              /\ pc' = "pdf_convert"
              /\ UNCHANGED <<job, outcomes, error, exitCode>>
         ELSE /\ job' = [job EXCEPT !.outcome = "failed", !.last_exc = "pdf2docx"]
              /\ Printed("failed")
              /\ ReturnFromMain
              /\ UNCHANGED handles
  /\ UNCHANGED <<envVars, fs, inputVars, output_dir, batchVars, com>>

\* Lines 234-237: converter.convert(...), the end of the with block, the line printed.
SinglePdfConvert ==
  /\ pc = "pdf_convert"
  /\ choice = 4
  /\ \E out \in Docx2PdfOutcomes :
       /\ fs' = AfterCall(fs, out, job.target)
       /\ handles' = WithExit(handles, job.file, out)
       /\ IF out = "wrote"
            THEN /\ job' = [job EXCEPT !.b = out, !.produced = TRUE, !.outcome = "converted"]
                 /\ Printed("converted")
            ELSE /\ job' = [job EXCEPT !.b = out, !.last_exc = "pdf2docx",
                                       !.outcome = "failed"]
                 /\ Printed("failed")
       /\ ReturnFromMain
  /\ UNCHANGED <<envVars, inputVars, output_dir, batchVars, com>>

----------------------------------------------------------------------------
(* The run                                                                 *)

Next ==
  \/ PromptChoice
  \/ PromptDirectory
  \/ PromptFile
  \/ ConvertDocxToPdfStart
  \/ JobStart
  \/ DocToDocxSoffice
  \/ ComDispatch
  \/ ComOpen
  \/ ComSaveAs
  \/ ComClose
  \/ ComQuit
  \/ ComTeardown
  \/ DocToDocxRaise
  \/ BatchBackendA
  \/ BatchBackendB
  \/ BatchExcept
  \/ SummaryPdfs
  \/ ConvertSingleDocxToPdfStart
  \/ SingleBackendA
  \/ SingleBackendB
  \/ SingleExcept
  \/ ConvertPdfToDocxStart
  \/ PdfOpen
  \/ PdfConvert
  \/ SummaryWords
  \/ ConvertSinglePdfToDocxStart
  \/ SinglePdfOpen
  \/ SinglePdfConvert

Spec == Init /\ [][Next]_vars

----------------------------------------------------------------------------
(* What the properties below speak of, stated from the inputs of the run   *)

\* name ends in the extension ext, letter case aside, after a non-empty stem.
HasExtension(name, ext) ==
  /\ Len(name) > Len(ext)
  /\ \A i \in 1..Len(ext) : LowerChar(name[Len(name) - Len(ext) + i]) = ext[i]

\* The regular files directly in dir whose extension is one of exts.
Eligible(f, dir, exts) ==
  {e.path : e \in {x \in f : /\ x.kind = "file"
                             /\ Len(x.path) = Len(dir) + 1
                             /\ SubSeq(x.path, 1, Len(dir)) = dir
                             /\ \E ext \in exts : HasExtension(x.path[Len(x.path)], ext)}}

\* The menu option typed, 0 when it is none of the four.
TypedOption ==
  LET t == SelectSeq(rawChoice, LAMBDA c : c # " ")
  IN  CASE t = <<"1">> -> 1
        [] t = <<"2">> -> 2
        [] t = <<"3">> -> 3
        [] t = <<"4">> -> 4
        [] OTHER -> 0

\* The extensions of the selected direction.
AcceptedExtensions == IF TypedOption \in {1, 3} THEN {DOCX, DOC} ELSE {PDF}

\* The path given is what the selected option needs, in the starting file system.
PathValid ==
  IF TypedOption \in {1, 2}
    THEN rawPath = <<>> \/ Dir(rawPath) \in fs0
    ELSE /\ File(rawPath) \in fs0
         /\ \E ext \in AcceptedExtensions : HasExtension(rawPath[Len(rawPath)], ext)

InputValid == TypedOption # 0 /\ PathValid

\* The output directory of the selected direction, beside the input.
OutDir ==
  Append(IF TypedOption \in {1, 2} THEN rawPath ELSE SubSeq(rawPath, 1, Len(rawPath) - 1),
         IF TypedOption \in {1, 3} THEN CONVERT_PDFS ELSE CONVERT_WORDS)

\* The conversion library of the selected direction was imported.
LibraryImported == IF TypedOption \in {1, 3} THEN docx_to_pdf_convert ELSE PdfToDocxConverter

\* How many "Converted" lines were printed.
ConvertedCount == Cardinality({i \in DOMAIN outcomes : outcomes[i][2] = "converted"})

WordToPdf == choice \in {1, 3}
Batch == choice \in {1, 2}
Exited == pc = "exited"

----------------------------------------------------------------------------
(* Properties                                                              *)

\* C1: in Word -> PDF conversion, when soffice was called for a job and did not
\* succeed (it raised, or returned with no target PDF in place), the next thing
\* the job does is call docx2pdf; and at the step that marks a job failed,
\* docx2pdf has already been called for it, unless .doc normalization failed.
C1_FallbackBeforeFailure ==
  [][ WordToPdf =>
        /\ (job.a = "none" /\ job'.a \in {"raise", "nowrite"} /\ job'.outcome = "pending")
             => pc' = "backendB"
        /\ (job.outcome # "failed" /\ job'.outcome = "failed")
             => (job.b # "none" \/ job.norm = "failed") ]_vars

C1_Witness ==
  /\ WordToPdf
  /\ soffice
  /\ job.a \in {"raise", "nowrite"}
  /\ job.b = "raise"
  /\ job.norm # "failed"
  /\ job.outcome = "failed"

\* C2: in a batch over N discovered files, the per-file lines printed follow the
\* files in order, one each; a run that started the loop ends with all N
\* lines printed, the summary converted/total with total = N and converted = the
\* number of "Converted" lines, and exit status 0, whatever failed.
C2_BatchRunsEveryFile ==
  (Batch /\ files # <<>>) =>
    /\ \A i, j \in DOMAIN files : i # j => files[i] # files[j]
    /\ Len(outcomes) <= Len(files)
    /\ \A i \in DOMAIN outcomes : outcomes[i][1] = files[i]
    /\ converted = ConvertedCount
    /\ Exited => /\ Len(outcomes) = Len(files)
                 /\ report = <<ConvertedCount, Len(files)>>
                 /\ exitCode = 0

C2_Witness ==
  /\ Exited
  /\ choice = 1
  /\ Len(files) = 3
  /\ outcomes[1][2] = "converted"
  /\ outcomes[2][2] = "failed"
  /\ outcomes[3][2] = "converted"
  /\ report = <<2, 3>>

\* C3: when main has ended, the exit status is 1 exactly when the input was
\* invalid (menu answer not one of 1-4, directory missing or not a directory,
\* file missing, not a regular file or of the wrong extension) or an error
\* escaped the selected conversion function, and 0 otherwise; a run that
\* printed any per-file line ends with 0; an invalid menu answer ends the run
\* without a second prompt; invalid input leaves the file system untouched.
C3_ExitCode ==
  Exited =>
    /\ exitCode \in {0, 1}
    /\ exitCode = 1 <=> (~InputValid \/ error = "convert")
    /\ outcomes # <<>> => exitCode = 0
    /\ TypedOption = 0 => (rawPath = <<>> /\ choice = 0)
    /\ ~InputValid => (error = "input" /\ fs = fs0 /\ outcomes = <<>>)

C3_Witness ==
  /\ Exited
  /\ choice = 1
  /\ Len(files) = 2
  /\ Len(outcomes) = 2
  /\ ConvertedCount = 0
  /\ exitCode = 0

\* C4: a Word -> PDF run with valid input, a Word file to convert and soffice
\* on the path does not fail as a whole when docx2pdf is not installed (and the
\* output directory can be made): its jobs are run and it ends without a
\* top-level error.
C4_SofficeAloneSuffices ==
  (Exited /\ WordToPdf /\ InputValid /\ soffice /\ ~docx_to_pdf_convert
     /\ (Batch => Eligible(fs0, rawPath, AcceptedExtensions) # {})
     /\ File(OutDir) \notin fs0)
    => (error # "convert" /\ outcomes # <<>>)

\* C5: a .doc job reaches a PDF backend only after normalization returned; when
\* normalization failed, every available normalization backend was tried and
\* failed, no PDF backend is called for the job, nothing is counted for it, and
\* the run goes on to end with exit status 0.
C5_NormalizationFailure ==
  WordToPdf =>
    /\ (job.file # <<>> /\ HasExtension(job.file[Len(job.file)], DOC)
          /\ (pc \in {"backendA", "backendB"} \/ job.a # "none" \/ job.b # "none"))
         => job.norm = "ok"
    /\ job.norm = "failed" =>
         /\ soffice => job.norm_soffice \in {"raise", "nowrite"}
         /\ win32com => com.failed # "none"
         /\ job.a = "none" /\ job.b = "none" /\ ~job.produced
         /\ job.outcome \in {"pending", "failed"}
         /\ converted = ConvertedCount
         /\ error = "none" /\ exitCode = 0
         /\ pc \in {"except", "job", "summary", "exited"}

C5_Witness ==
  /\ choice = 1
  /\ ~soffice /\ ~win32com
  /\ job.norm = "failed"
  /\ job.outcome = "failed"
  /\ pc = "job"
  /\ idx = 2

\* C6: with pdf2docx not imported, a PDF -> Word run (option 2 or 4) never
\* changes the file system, runs no job and opens no converter; once the input
\* was accepted it ends in main's error exit with status 1.
C6_MissingPdfLibraryFailsFast ==
  (choice \in {2, 4} /\ ~PdfToDocxConverter) =>
    /\ fs = fs0
    /\ outcomes = <<>> /\ job = NoJob /\ handles = {}
    /\ pc \in {"prompt_path", "convert", "exited"}
    /\ (Exited /\ InputValid) => (exitCode = 1 /\ error = "convert")

C6_Witness ==
  /\ Exited
  /\ choice = 4
  /\ ~PdfToDocxConverter
  /\ InputValid
  /\ exitCode = 1
  /\ Dir(OutDir) \notin fs

\* C7 as stated: a batch run on a directory with no eligible file runs no
\* backend, writes nothing but possibly the output directory, reports nothing
\* converted and ends with exit status 0.
C7_EmptyBatchExitsZero ==
  (Exited /\ Batch /\ InputValid /\ Eligible(fs0, rawPath, AcceptedExtensions) = {}) =>
    /\ outcomes = <<>> /\ job = NoJob /\ handles = {}
    /\ report = <<>> /\ converted = 0
    /\ fs0 \subseteq fs /\ fs \ fs0 \subseteq {Dir(OutDir)}
    /\ exitCode = 0

\* C7 amended: a batch run on a directory with no eligible file runs no
\* backend and reports nothing converted; when the direction's library is
\* imported and the output path is not taken by a file, it makes sure the
\* output directory exists, prints the "nothing found" line and ends with exit
\* status 0; otherwise it ends with exit status 1 and the file system untouched.
C7_EmptyBatch ==
  (Exited /\ Batch /\ InputValid /\ Eligible(fs0, rawPath, AcceptedExtensions) = {}) =>
    /\ outcomes = <<>> /\ job = NoJob /\ handles = {}
    /\ report = <<>> /\ converted = 0
    /\ IF LibraryImported /\ File(OutDir) \notin fs0
         THEN exitCode = 0 /\ info /\ fs = fs0 \cup {Dir(OutDir)}
         ELSE exitCode = 1 /\ ~info /\ fs = fs0

C7_Witness ==
  /\ Exited /\ Batch /\ InputValid
  /\ Eligible(fs0, rawPath, AcceptedExtensions) = {}
  /\ fs0 # {}
  /\ Dir(OutDir) \in fs0
  /\ info
  /\ fs = fs0
  /\ exitCode = 0

\* C8: a pdf2docx converter is open only while its own file is being converted,
\* so it is closed, on success and on failure, before the next file or the end;
\* a Word session is live outside the automation steps only if its teardown was
\* attempted and itself failed; and when a step after Dispatch raised, Quit was
\* attempted and the cause recorded is that step's error, not the teardown's.
C8_ResourcesReleased ==
  /\ handles # {} => (pc = "pdf_convert" /\ handles = {job.file})
  /\ com.word =>
       \/ pc \in {"com_open", "com_saveas", "com_close", "com_quit", "com_teardown"}
       \/ com.teardown = "raise"
  /\ (pc = "norm_raise" /\ com.failed \in {"Open", "SaveAs", "Close", "Quit"}) =>
       /\ com.quits >= 1
       /\ com.teardown \in {"ok", "raise"}
       /\ job.last_exc = com.failed

C8_Witness ==
  /\ pc = "pdf_open"
  /\ choice = 2
  /\ idx = 2
  /\ job.b = "raise"
  /\ job.outcome = "failed"
  /\ handles = {}

\* C9: once a batch has listed its directory, the files it holds are exactly
\* the regular files directly in that directory whose extension is an accepted
\* one, letter case aside, each once: no other extension, no directory, nothing
\* from a subdirectory.
C9_ListingExact ==
  (Batch /\ error = "none" /\ pc \notin {"prompt_choice", "prompt_path", "convert"}) =>
    /\ {files[i] : i \in DOMAIN files} = Eligible(fs0, directory, AcceptedExtensions)
    /\ Len(files) = Cardinality(Eligible(fs0, directory, AcceptedExtensions))

C9_Witness ==
  /\ choice = 1
  /\ directory = <<>>
  /\ pc = "job"
  /\ files = << << <<"b", ".", "D", "O", "C">> >> >>
  /\ Dir(<< <<"d", ".", "d", "o", "c", "x">> >>) \in fs0
  /\ File(<< <<"d", ".", "d", "o", "c", "x">>, <<"c", ".", "d", "o", "c", "x">> >>) \in fs0

\* C10: in Word -> PDF conversion a job is counted converted only if a backend
\* call made during that job wrote its target PDF.
C10_ConvertedOnlyIfProduced ==
  (WordToPdf /\ job.outcome = "converted") => job.produced

====
